---- MODULE Spec2Model ----
(***************************************************************************)
(* Payment issuance and verification engine of crypto-signals-platform.    *)
(*                                                                         *)
(*   Spec         the payment routes (routes/payments.py) acting on the    *)
(*                Payment rows and the audit log, with concurrent requests *)
(*   SpecService  PaymentService (services/payment_service.py)             *)
(*   SpecChain    BlockchainService (services/blockchain_service.py)       *)
(*   SpecPayment  the methods of the Payment model (models/payment.py)      *)
(***************************************************************************)
EXTENDS Integers, Sequences, FiniteSets, TLC

VARIABLES
    db,         \* payments table: record id -> Payment row
    audit,      \* audit_logs table, in commit order
    req,        \* per worker: the request in flight and the row its session loaded
    resp,       \* HTTP status of the last answered request
    settled,    \* history: per payment, TRUE while its latest event is a committed
                \* sync and the provider's side has not changed since
    svc,        \* PaymentService: which credentials the constructor was given
    issued,     \* history: the invoices create_payment_invoice has returned
    last,       \* the latest PaymentService call: arguments, provider answers, return
    vcall,      \* the latest BlockchainService call: arguments, API answers, return
    mcall       \* a call of a Payment method: the object before, arguments, return

routeVars == <<db, audit, req, resp, settled>>
serviceVars == <<svc, issued, last>>
vars == <<db, audit, req, resp, settled, svc, issued, last, vcall, mcall>>

----------------------------------------------------------------------------
(* Bounds *)

MaxPayments == 2
MaxAudit == 3
MaxInvoices == 2

----------------------------------------------------------------------------
(* Values *)

NULL == "NULL"                       \* Python None

Truthy(s) == s \notin {NULL, ""}     \* Python truthiness of an optional string

Reqs == {"w1", "w2"}                 \* concurrent request workers
Admins == {"admin1"}                 \* current_user.id of the caller
Providers == {"manual"}
Amounts == {50}
TxIds == {"tx1", "tx2"}
Reasons == {"Cancelled by admin"}

\* amounts of the services are decimal numbers m * 10^e + d, with d a whole number
\* of raw units of the network (raw integer units, or human units)
Dec(m, e) == [m |-> m, e |-> e, d |-> 0]
Below(m, e) == [m |-> m, e |-> e, d |-> -1]      \* one raw unit short of m * 10^e

RecordId(k) == ToString(k)           \* the k-th generated primary key
created == DOMAIN db

Terminal == {"completed", "failed", "expired", "cancelled"}
NonTerminal == {"pending", "confirming", "confirmed", "partial", "unknown"}

----------------------------------------------------------------------------
(* models/payment.py *)

NoData == [cancellation_reason |-> NULL, failure_reason |-> NULL,
           force_confirmed |-> FALSE, confirmed_by |-> NULL, sync_result |-> NULL]

\* datetime.utcnow() at the INSERT of a row, and at a later call
INSERTED == "t_insert"
utcnow == "t_now"

\* Payment.__init__ followed by the column default of status at INSERT
Payment(provider, amount, currency, transaction_id) ==
    [provider |-> provider, amount |-> amount, currency |-> currency,
     status |-> "pending", transaction_id |-> transaction_id,
     payment_data |-> NoData, updated_at |-> INSERTED]

valid_statuses == {"pending", "completed", "failed", "cancelled"}

\* the mutation: the transaction id is assigned without the truthiness test
update_status_unguarded_tx(p, new_status, transaction_id) ==
    IF new_status \in valid_statuses
    THEN [rec |-> [p EXCEPT !.status = new_status,
                            !.transaction_id = transaction_id,
                            !.updated_at = utcnow],
          ret |-> TRUE]
    ELSE [rec |-> p, ret |-> FALSE]

\* the mutation: the status is assigned before it is validated
update_status_assign_first(p, new_status, transaction_id) ==
    IF new_status \in valid_statuses
    THEN [rec |-> [p EXCEPT !.status = new_status,
                            !.transaction_id =
                                IF Truthy(transaction_id) THEN transaction_id ELSE @,
                            !.updated_at = utcnow],
          ret |-> TRUE]
    ELSE [rec |-> [p EXCEPT !.status = new_status], ret |-> FALSE]

update_status(p, new_status, transaction_id) ==
    IF new_status \in valid_statuses
    THEN [rec |-> [p EXCEPT !.status = new_status,
                            !.transaction_id =
                                IF Truthy(transaction_id) THEN transaction_id ELSE @,
                            !.updated_at = utcnow],
          ret |-> TRUE]
    ELSE [rec |-> p, ret |-> FALSE]

mark_completed(p, transaction_id) == update_status(p, "completed", transaction_id)

mark_failed(p, reason) ==
    LET q == IF Truthy(reason)
             THEN [p EXCEPT !.payment_data.failure_reason = reason]
             ELSE p
    IN  update_status(q, "failed", NULL)

\* the mutation: cancelling also zeroes the amount
cancel_zero_amount(p, reason) ==
    LET q == IF Truthy(reason)
             THEN [p EXCEPT !.payment_data.cancellation_reason = reason]
             ELSE p
    IN  update_status([q EXCEPT !.amount = 0], "cancelled", NULL)

cancel(p, reason) ==
    LET q == IF Truthy(reason)
             THEN [p EXCEPT !.payment_data.cancellation_reason = reason]
             ELSE p
    IN  update_status(q, "cancelled", NULL)

----------------------------------------------------------------------------
(* models/audit_log.py *)

log_action(user_id, action, record_id, old_status, new_status, transaction_id, reason) ==
    [user_id |-> user_id, action |-> action, record_id |-> record_id,
     old_status |-> old_status, new_status |-> new_status,
     transaction_id |-> transaction_id, reason |-> reason]

----------------------------------------------------------------------------
(* the session: a row is loaded into the request's session; commit writes   *)
(* back the attributes whose value differs from the loaded one              *)

Idle == [op |-> "idle", pid |-> NULL, actor |-> NULL]

Fields == {"provider", "amount", "currency", "status", "transaction_id", "payment_data",
           "updated_at"}

flush(row, snap, obj) ==
    [f \in Fields |-> IF obj[f] # snap[f] THEN obj[f] ELSE row[f]]

Answer(w, code) == /\ resp' = code
                   /\ req' = [req EXCEPT ![w] = Idle]
                   /\ UNCHANGED <<svc, issued, last, vcall, mcall>>

Touch(pid, b) == settled' = [settled EXCEPT ![pid] = b]

----------------------------------------------------------------------------
(* routes/payments.py *)

SYNTHETIC == "ADMIN_OVERRIDE"        \* f'ADMIN_OVERRIDE_{utcnow}'
ABSENT == "ABSENT"                   \* key missing from the request body

sync_results == {"completed", "pending", "failed"}

\* POST /  : the audit entry is built before the INSERT assigns id and status
create_payment(w, a, provider, amount, transaction_id) ==
    /\ req[w].op = "idle"
    /\ Cardinality(created) < MaxPayments
    /\ Len(audit) < MaxAudit
    /\ LET pid == RecordId(Cardinality(created) + 1)
           payment == Payment(provider, amount, "BTC", transaction_id)
       IN  /\ db' = db @@ (pid :> payment)
           /\ settled' = settled @@ (pid :> FALSE)
           /\ audit' = Append(audit, log_action(a, "CREATE_PAYMENTS", NULL, NULL,
                                                NULL, transaction_id, NULL))
    /\ Answer(w, 201)

\* Payment.query.get(payment_id) of the three mutating routes
Load(w, a, op, pid) ==
    /\ req[w].op = "idle"
    /\ pid \in created
    /\ req' = [req EXCEPT ![w] = [op |-> op, pid |-> pid, actor |-> a,
                                  snap |-> db[pid]]]
    /\ UNCHANGED <<db, audit, resp, settled, svc, issued, last, vcall, mcall>>

\* Payment.query.get finds nothing: 404
NotFound(w, pid) ==
    /\ req[w].op = "idle"
    /\ pid \notin created
    /\ Answer(w, 404)
    /\ UNCHANGED <<db, audit, settled>>

\* POST /<id>/sync from the loaded row to the commit
sync_payment(w, new_status) ==
    /\ req[w].op = "sync"
    /\ Len(audit) < MaxAudit
    /\ LET pid == req[w].pid
           snap == req[w].snap
           old_status == snap.status
           upd == update_status(snap, new_status, NULL).rec
           payment == [upd EXCEPT !.payment_data.sync_result = "success"]
           row == flush(db[pid], snap, payment)
       IN  /\ db' = [db EXCEPT ![pid] = row]
           /\ audit' = Append(audit, log_action(req[w].actor, "SYNC_PAYMENT", pid,
                                                old_status, payment.status, NULL, NULL))
           /\ Touch(pid, TRUE)
    /\ Answer(w, 200)

\* POST /<id>/cancel from the loaded row to the commit
cancel_payment(w, reason) ==
    /\ req[w].op = "cancel"
    /\ LET pid == req[w].pid
           snap == req[w].snap
       IN  IF snap.status # "pending"
           THEN /\ Answer(w, 400)
                /\ UNCHANGED <<db, audit, settled>>
           ELSE /\ Len(audit) < MaxAudit
                /\ LET payment == cancel(snap, reason).rec
                   IN  /\ db' = [db EXCEPT ![pid] = flush(db[pid], snap, payment)]
                       /\ audit' = Append(audit,
                              log_action(req[w].actor, "CANCEL_PAYMENT", pid,
                                         snap.status, payment.status, NULL, reason))
                /\ Touch(pid, FALSE)
                /\ Answer(w, 200)

\* POST /<id>/force-confirm from the loaded row to the commit
force_confirm_payment(w, body_tx) ==
    /\ req[w].op = "force"
    /\ LET pid == req[w].pid
           snap == req[w].snap
       IN  IF snap.status = "completed"
           THEN /\ Answer(w, 400)
                /\ UNCHANGED <<db, audit, settled>>
           ELSE /\ Len(audit) < MaxAudit
                /\ LET transaction_id == IF body_tx = ABSENT THEN SYNTHETIC ELSE body_tx
                       upd == mark_completed(snap, transaction_id).rec
                       payment == [upd EXCEPT !.payment_data.force_confirmed = TRUE,
                                              !.payment_data.confirmed_by = req[w].actor]
                   IN  /\ db' = [db EXCEPT ![pid] = flush(db[pid], snap, payment)]
                       /\ audit' = Append(audit,
                              log_action(req[w].actor, "FORCE_CONFIRM_PAYMENT", pid,
                                         snap.status, payment.status, transaction_id, NULL))
                /\ Touch(pid, FALSE)
                /\ Answer(w, 200)

\* except Exception: db.session.rollback(), 500
rollback(w) ==
    /\ req[w].op \in {"sync", "cancel", "force"}
    /\ Answer(w, 500)
    /\ UNCHANGED <<db, audit, settled>>

\* the provider's side of a payment changes (the routes never read it)
UpstreamChange(pid) ==
    /\ pid \in created
    /\ settled[pid]
    /\ Touch(pid, FALSE)
    /\ UNCHANGED <<db, audit, req, resp, svc, issued, last, vcall, mcall>>

----------------------------------------------------------------------------

NoCall == [op |-> "none"]

InitRoutes ==
    /\ db = <<>>
    /\ audit = <<>>
    /\ req = [w \in Reqs |-> Idle]
    /\ resp = 0
    /\ settled = <<>>

Init ==
    /\ InitRoutes
    /\ svc = [nowpayments_api_key |-> FALSE, btcpay_api_key |-> FALSE,
              btcpay_url |-> FALSE]
    /\ issued = <<>>
    /\ last = NoCall
    /\ vcall = NoCall
    /\ mcall = NoCall

Next ==
    \/ \E w \in Reqs, a \in Admins, pr \in Providers, am \in Amounts,
          tx \in {NULL, "tx1"} : create_payment(w, a, pr, am, tx)
    \/ \E w \in Reqs, a \in Admins, op \in {"sync", "cancel", "force"},
          pid \in created : Load(w, a, op, pid)
    \/ \E w \in Reqs : NotFound(w, RecordId(Cardinality(created) + 1))
    \/ \E w \in Reqs, s \in sync_results : sync_payment(w, s)
    \/ \E w \in Reqs, r \in Reasons : cancel_payment(w, r)
    \/ \E w \in Reqs, tx \in {ABSENT, NULL, "tx2"} : force_confirm_payment(w, tx)
    \/ \E w \in Reqs : rollback(w)
    \/ \E pid \in created : UpstreamChange(pid)

Spec == Init /\ [][Next]_vars

----------------------------------------------------------------------------
(* services/payment_service.py *)

Orders == {"order1", "order2"}
InvoiceIds == {"inv1", "inv2"}                 \* ids a hosted provider hands out
\* f"manual_{uuid4().hex[:8]}": the n-th id drawn, no two alike
ManualId(n) == <<"manual_0a", "manual_0b", "manual_0c", "manual_0d">>[n]
CurrencyArgs == {"btc", "USDT", "USDT_BEP20"}
ProviderArgs == {"nowpayments", "btcpay", "manual", NULL}
\* the invoices asked for: order1 in BTC or USDT, order2 in USDT_BEP20
InvoiceRequests ==
    {rq \in Orders \X CurrencyArgs : rq[1] = "order2" <=> rq[2] = "USDT_BEP20"}
InvoiceAmount(c) == IF c = "btc" THEN Dec(1, -2) ELSE Dec(50, 0)

\* str.upper() on the currency codes in use
Upper(c) == IF c = "btc" THEN "BTC" ELSE c

\* an exception travelling up the call stack, as a value
Raise(e) == [raised |-> TRUE, exc |-> e]
IsRaise(x) == "raised" \in DOMAIN x

\* what a provider's HTTP endpoint does with one request
HttpFailures == {[kind |-> "http_error"], [kind |-> "timeout"]}
Ok(json) == [kind |-> "ok", json |-> json]

\* PaymentService.wallet_addresses
wallet_addresses ==
    [BTC |-> "14MxL4x95TRTYJroWe8bWy4wSLq6c4WCr5",
     USDT_TRC20 |-> "TJkLFH53mJUzaTMxLtYqa28jzL9CppJotV",
     USDT_ERC20 |-> "0xdd3a7fd3a23c7bf18a9956ca1a1cc8f35d4fce25"]

\* status 200 gives the body, any other status raises; a failed request raises
_handle_response(out) ==
    IF out.kind = "ok" THEN out.json ELSE Raise("API error")

_make_nowpayments_request(out) ==
    IF out.kind = "timeout" THEN Raise("timeout") ELSE _handle_response(out)

_make_btcpay_request(cfg, out) ==
    IF ~cfg.btcpay_url \/ ~cfg.btcpay_api_key
    THEN Raise("BTCPay Server configuration missing")
    ELSE IF out.kind = "timeout" THEN Raise("timeout") ELSE _handle_response(out)

_create_nowpayments_invoice(amount, currency, order_id, out) ==
    LET response == _make_nowpayments_request(out)
    IN  IF IsRaise(response) THEN response
        ELSE [invoice_id |-> response.id, address |-> response.pay_address,
              amount |-> amount, currency |-> Upper(currency),
              status |-> "pending", provider |-> "nowpayments"]

\* response.get('cryptoInfo', [{}])[0] raises IndexError on an empty list
_create_btcpay_invoice(cfg, amount, currency, order_id, out) ==
    LET response == _make_btcpay_request(cfg, out)
    IN  IF IsRaise(response) THEN response
        ELSE IF response.cryptoInfo = 0 THEN Raise("IndexError")
        ELSE [invoice_id |-> response.id, address |-> response.pay_address,
              amount |-> amount, currency |-> Upper(currency),
              status |-> "pending", provider |-> "btcpay"]

\* the mutation: the fallback wallet is used but the currency is not rewritten
_create_manual_invoice_keep_currency(amount, currency, order_id, fresh) ==
    LET known == Upper(currency) \in DOMAIN wallet_addresses
        address == IF known THEN wallet_addresses[Upper(currency)]
                   ELSE wallet_addresses["USDT_TRC20"]
    IN  [invoice_id |-> fresh, address |-> address, amount |-> amount,
         currency |-> Upper(currency), status |-> "pending", provider |-> "manual"]

_create_manual_invoice(amount, currency, order_id, fresh) ==
    LET known == Upper(currency) \in DOMAIN wallet_addresses
        address == IF known THEN wallet_addresses[Upper(currency)]
                   ELSE wallet_addresses["USDT_TRC20"]
        cur == IF known THEN currency ELSE "USDT_TRC20"
    IN  [invoice_id |-> fresh, address |-> address, amount |-> amount,
         currency |-> Upper(cur), status |-> "pending", provider |-> "manual"]

\* the mutation: each provider that throws hands over to the next one in the list
create_payment_invoice_chain(cfg, amount, currency, order_id, np_out, btc_out, fresh) ==
    LET manual == _create_manual_invoice(amount, currency, order_id, fresh)
        np == _create_nowpayments_invoice(amount, currency, order_id, np_out)
        btc == _create_btcpay_invoice(cfg, amount, currency, order_id, btc_out)
        hasBtc == cfg.btcpay_api_key /\ cfg.btcpay_url
        fromBtc == IF ~hasBtc THEN [ret |-> manual, tried |-> <<>>]
                   ELSE IF IsRaise(btc) THEN [ret |-> manual, tried |-> <<"btcpay">>]
                   ELSE [ret |-> btc, tried |-> <<"btcpay">>]
    IN  IF cfg.nowpayments_api_key
        THEN IF IsRaise(np)
             THEN [ret |-> fromBtc.ret, tried |-> <<"nowpayments">> \o fromBtc.tried]
             ELSE [ret |-> np, tried |-> <<"nowpayments">>]
        ELSE fromBtc

\* ret: the returned invoice; tried: the hosted providers whose creation was called
create_payment_invoice(cfg, amount, currency, order_id, np_out, btc_out, fresh) ==
    LET first ==
            IF cfg.nowpayments_api_key
            THEN [ret |-> _create_nowpayments_invoice(amount, currency, order_id, np_out),
                  tried |-> <<"nowpayments">>]
            ELSE IF cfg.btcpay_api_key /\ cfg.btcpay_url
            THEN [ret |-> _create_btcpay_invoice(cfg, amount, currency, order_id, btc_out),
                  tried |-> <<"btcpay">>]
            ELSE [ret |-> _create_manual_invoice(amount, currency, order_id, fresh),
                  tried |-> <<>>]
    IN  IF IsRaise(first.ret)
        THEN [ret |-> _create_manual_invoice(amount, currency, order_id, fresh),
              tried |-> first.tried]
        ELSE first

\* the mutation: 'sending' is read as still pending
nowpayments_status_map_sending_pending ==
    [waiting |-> "pending", confirming |-> "confirming", confirmed |-> "confirmed",
     sending |-> "pending", partially_paid |-> "partial", finished |-> "completed",
     failed |-> "failed", refunded |-> "refunded", expired |-> "expired"]

nowpayments_status_map ==
    [waiting |-> "pending", confirming |-> "confirming", confirmed |-> "confirmed",
     sending |-> "confirmed", partially_paid |-> "partial", finished |-> "completed",
     failed |-> "failed", refunded |-> "refunded", expired |-> "expired"]

\* the mutation: 'Paid' is read as already confirmed
btcpay_status_map_paid_confirmed ==
    [New |-> "pending", Paid |-> "confirmed", Confirmed |-> "confirmed",
     Complete |-> "completed", Expired |-> "expired", Invalid |-> "failed"]

btcpay_status_map ==
    [New |-> "pending", Paid |-> "confirming", Confirmed |-> "confirmed",
     Complete |-> "completed", Expired |-> "expired", Invalid |-> "failed"]

\* dict.get(key, default)
Get(map, key, default) == IF key \in DOMAIN map THEN map[key] ELSE default

\* the mutation: a native status the table lacks is passed through as it is
_check_nowpayments_status_passthrough(invoice_id, out) ==
    LET response == _make_nowpayments_request(out)
    IN  IF IsRaise(response) THEN response
        ELSE LET nowpayments_status == Get(response, "payment_status", "waiting")
             IN  [status |-> Get(nowpayments_status_map, nowpayments_status,
                                 nowpayments_status),
                  transaction_id |-> Get(response, "payment_id", NULL),
                  provider |-> "nowpayments"]

_check_nowpayments_status(invoice_id, out) ==
    LET response == _make_nowpayments_request(out)
    IN  IF IsRaise(response) THEN response
        ELSE LET nowpayments_status == Get(response, "payment_status", "waiting")
             IN  [status |-> Get(nowpayments_status_map, nowpayments_status, "unknown"),
                  transaction_id |-> Get(response, "payment_id", NULL),
                  provider |-> "nowpayments"]

\* the mutation: a native status the table lacks is taken for the default one
_check_btcpay_status_guess(cfg, invoice_id, out) ==
    LET response == _make_btcpay_request(cfg, out)
    IN  IF IsRaise(response) THEN response
        ELSE LET btcpay_status == Get(response, "status", "New")
             IN  [status |-> Get(btcpay_status_map, btcpay_status, "pending"),
                  transaction_id |-> Get(response, "id", NULL),
                  provider |-> "btcpay"]

_check_btcpay_status(cfg, invoice_id, out) ==
    LET response == _make_btcpay_request(cfg, out)
    IN  IF IsRaise(response) THEN response
        ELSE LET btcpay_status == Get(response, "status", "New")
             IN  [status |-> Get(btcpay_status_map, btcpay_status, "unknown"),
                  transaction_id |-> Get(response, "id", NULL),
                  provider |-> "btcpay"]

_check_manual_payment_status(invoice_id) ==
    [status |-> "pending", transaction_id |-> NULL, provider |-> "manual"]

\* the mutation: NowPayments answers whenever its key is set
CheckTarget_nowpayments_first(cfg, provider) ==
    IF cfg.nowpayments_api_key THEN "nowpayments"
    ELSE IF provider = "btcpay" /\ cfg.btcpay_api_key THEN "btcpay"
    ELSE "manual"

\* the provider the status check addresses, if any
CheckTarget(cfg, provider) ==
    IF provider = "nowpayments" /\ cfg.nowpayments_api_key THEN "nowpayments"
    ELSE IF provider = "btcpay" /\ cfg.btcpay_api_key THEN "btcpay"
    ELSE "manual"

\* the mutation: the try/except around the dispatch is missing
check_payment_status_no_except(cfg, invoice_id, provider, out) ==
    IF CheckTarget(cfg, provider) = "nowpayments"
    THEN _check_nowpayments_status(invoice_id, out)
    ELSE IF CheckTarget(cfg, provider) = "btcpay"
    THEN _check_btcpay_status(cfg, invoice_id, out)
    ELSE _check_manual_payment_status(invoice_id)

check_payment_status(cfg, invoice_id, provider, out) ==
    LET inner == IF CheckTarget(cfg, provider) = "nowpayments"
                 THEN _check_nowpayments_status(invoice_id, out)
                 ELSE IF CheckTarget(cfg, provider) = "btcpay"
                 THEN _check_btcpay_status(cfg, invoice_id, out)
                 ELSE _check_manual_payment_status(invoice_id)
    IN  IF IsRaise(inner)
        THEN [status |-> "unknown", error |-> inner.exc]
        ELSE inner

\* answers of the invoice-creation endpoints
NowPaymentsCreateAnswers ==
    HttpFailures \cup {Ok([id |-> i, pay_address |-> "np_address"]) : i \in InvoiceIds}
BtcPayCreateAnswers ==
    HttpFailures \cup {Ok([id |-> "inv1", pay_address |-> "btcpay_address",
                           cryptoInfo |-> n]) : n \in {0, 1}}
NotCalled == {[kind |-> "not_called"]}         \* no credentials, no request

\* answers of the invoice-status endpoints
NowPaymentsStatusAnswers ==
    HttpFailures
      \cup {Ok([payment_status |-> st, payment_id |-> "tx1"]) :
               st \in DOMAIN nowpayments_status_map \cup {"wrong_asset_confirmed"}}
      \cup {Ok([payment_id |-> "tx1"])}
BtcPayStatusAnswers ==
    HttpFailures
      \cup {Ok([status |-> st, id |-> "inv1"]) :
               st \in DOMAIN btcpay_status_map \cup {"Processing"}}
      \cup {Ok([id |-> "inv1"])}
\* BTCPay is only requested when its URL is set too (else the call raises first)
StatusAnswers(cfg, target) ==
    IF target = "nowpayments" THEN NowPaymentsStatusAnswers
    ELSE IF target = "btcpay" /\ cfg.btcpay_url THEN BtcPayStatusAnswers
    ELSE NotCalled

\* the transfers the block explorers list for the manual wallets: nothing, one
\* TRC20 transfer of 50 USDT (in a block or not yet), or one BTC transfer
EmptyView == [tron |-> Ok([success |-> TRUE, data |-> <<>>]), btc |-> Ok(<<>>)]
ChainViews ==
    {EmptyView}
      \cup {[EmptyView EXCEPT !.tron.json.data =
                 <<[transaction_id |-> "1", to |-> wallet_addresses.USDT_TRC20,
                    value |-> Dec(50, 6), info |-> i]>>] : i \in {"block", "noblock"}}
      \cup {[EmptyView EXCEPT !.btc.json =
                 <<[txid |-> "1", status |-> [confirmed |-> TRUE],
                    vout |-> <<[scriptpubkey_address |-> wallet_addresses.BTC,
                                value |-> v]>>]>>] : v \in {Dec(5, 5), Dec(1, 6)}}

CreateInvoice(amount, currency, order_id, np_out, btc_out, fresh) ==
    /\ Len(issued) < MaxInvoices
    /\ LET r == create_payment_invoice(svc, amount, currency, order_id,
                                       np_out, btc_out, fresh)
       IN  /\ last' = [op |-> "create", order_id |-> order_id, currency |-> currency,
                       np_out |-> np_out.kind, btc_out |-> btc_out.kind,
                       tried |-> r.tried, ret |-> r.ret]
           /\ issued' = IF IsRaise(r.ret) THEN issued
                        ELSE Append(issued, [order_id |-> order_id,
                                             invoice_id |-> r.ret.invoice_id,
                                             provider |-> r.ret.provider,
                                             currency |-> r.ret.currency,
                                             amount |-> r.ret.amount,
                                             address |-> r.ret.address])
    /\ UNCHANGED <<routeVars, svc, vcall, mcall>>

\* chain: what the block explorer shows at the wallet while the check runs
CheckStatus(invoice_id, provider, out, chain) ==
    /\ last' = [op |-> "check", invoice_id |-> invoice_id, provider |-> provider,
                target |-> CheckTarget(svc, provider), out |-> out.kind,
                answer |-> out, chain |-> chain,
                ret |-> check_payment_status(svc, invoice_id, provider, out)]
    /\ UNCHANGED <<routeVars, svc, issued, vcall, mcall>>

InitService ==
    /\ InitRoutes
    /\ svc \in [nowpayments_api_key : BOOLEAN, btcpay_api_key : BOOLEAN,
                btcpay_url : BOOLEAN]
    /\ issued = <<>>
    /\ last = NoCall
    /\ vcall = NoCall
    /\ mcall = NoCall

NextService ==
    \/ \E rq \in InvoiceRequests :
          \E np_out \in IF svc.nowpayments_api_key
                         THEN NowPaymentsCreateAnswers ELSE NotCalled,
             btc_out \in IF svc.btcpay_api_key /\ svc.btcpay_url
                          THEN BtcPayCreateAnswers ELSE NotCalled :
             CreateInvoice(InvoiceAmount(rq[2]), rq[2], rq[1], np_out, btc_out,
                           ManualId(Len(issued) + 1))
    \/ \E i \in {"inv1", "manual_0a"}, pr \in ProviderArgs :
          \E out \in StatusAnswers(svc, CheckTarget(svc, pr)),
             chain \in IF CheckTarget(svc, pr) = "manual" THEN ChainViews
                       ELSE {EmptyView} :
             CheckStatus(i, pr, out, chain)

SpecService == InitService /\ [][NextService]_vars

----------------------------------------------------------------------------
(* services/blockchain_service.py *)

MaxTxs == 2                           \* transfers in one API answer

RECURSIVE Pow10(_)
Pow10(n) == IF n = 0 THEN 1 ELSE 10 * Pow10(n - 1)

\* m * 10^e >= m' * 10^e'; mantissas stay below 10^5, so five places decide
GeNominal(x, y) ==
    IF x.e >= y.e
    THEN IF x.e - y.e > 4 THEN x.m > 0 \/ y.m = 0
         ELSE x.m * Pow10(x.e - y.e) >= y.m
    ELSE IF y.e - x.e > 4 THEN y.m = 0
         ELSE x.m >= y.m * Pow10(y.e - x.e)

\* x >= y: the raw-unit offsets decide between equal nominal values (the nominal
\* values in use differ by far more than one raw unit when they differ)
Ge(x, y) == GeNominal(x, y) /\ (GeNominal(y, x) => x.d >= y.d)

RECURSIVE Digits(_)
Digits(n) == IF n < 10 THEN 1 ELSE 1 + Digits(n \div 10)

\* the double nearest to an integer: 53 bits hold every integer of up to 15
\* digits; one of more than 17 digits that is a unit away from m * 10^e (itself
\* a double for the values in use) rounds to m * 10^e
ToFloat(value) ==
    IF Digits(value.m) + value.e > 17 THEN [value EXCEPT !.d = 0] ELSE value

\* float(value) / 10^decimals, or value / 10^decimals on an int
Scale(value, decimals) ==
    [ToFloat(value) EXCEPT !.e = value.e - decimals]

BTC_DECIMALS == 8
ETH_USDT_DECIMALS == 6
TRON_USDT_DECIMALS == 6
BSC_USDT_DECIMALS == 18

\* str.lower() on the addresses in use
Lower(a) == CASE a \in {"addrA", "ADDRA"} -> "addra"
              [] a \in {"addrB", "ADDRB"} -> "addrb"

\* the value of an HTTP call: a body, or None
NoneVal == [none |-> TRUE]
Some(json) == [none |-> FALSE, json |-> json]

\* status 200 gives the body; any other status and any exception give None
_make_request(out) ==
    IF out.kind = "ok" THEN Some(out.json) ELSE NoneVal

Verified(transaction_id, amount, confirmations) ==
    [verified |-> TRUE, transaction_id |-> transaction_id, amount |-> amount,
     confirmations |-> confirmations]
NotVerified == [verified |-> FALSE, reason |-> "Payment not found or insufficient amount"]
ErrorResult(e) == [verified |-> FALSE, error |-> e]

\* the mutation: amount or confirmation is enough
BtcQualifies_or(received_amount, amount, confirmations) ==
    Ge(received_amount, amount) \/ confirmations

\* if received_amount >= amount and confirmations
BtcQualifies(received_amount, amount, confirmations) ==
    Ge(received_amount, amount) /\ confirmations

\* for tx in transactions: for output in tx.vout, from output j of transaction i
RECURSIVE ScanBtc(_, _, _, _, _)
ScanBtc(transactions, i, j, address, amount) ==
    IF i > Len(transactions) THEN NotVerified
    ELSE IF j > Len(transactions[i].vout)
    THEN ScanBtc(transactions, i + 1, 1, address, amount)
    ELSE LET tx == transactions[i]
             output == tx.vout[j]
             received_amount == Scale(output.value, BTC_DECIMALS)
             confirmations == tx.status.confirmed
         IN  IF /\ output.scriptpubkey_address = address
                /\ BtcQualifies(received_amount, amount, confirmations)
             THEN Verified(tx.txid, received_amount, IF confirmations THEN 1 ELSE 0)
             ELSE ScanBtc(transactions, i, j + 1, address, amount)

verify_btc_payment(address, amount, out) ==
    LET transactions == _make_request(out)
    IN  IF transactions.none \/ transactions.json = <<>>
        THEN ErrorResult("Failed to fetch transactions")
        ELSE ScanBtc(transactions.json, 1, 1, address, amount)

\* for tx in transactions, from transaction i; tx.get('to').lower() raises on None
RECURSIVE ScanEth(_, _, _, _)
ScanEth(transactions, i, address, amount) ==
    IF i > Len(transactions) THEN NotVerified
    ELSE LET tx == transactions[i]
             received_amount == Scale(tx.value, ETH_USDT_DECIMALS)
         IN  IF tx.to = NULL THEN Raise("AttributeError")
             ELSE IF /\ Lower(tx.to) = Lower(address)
                     /\ Ge(received_amount, amount) /\ tx.confirmations >= 1
             THEN Verified(tx.hash, received_amount, tx.confirmations)
             ELSE ScanEth(transactions, i + 1, address, amount)

\* the mutation: the fetched list is scanned from its last transfer
verify_eth_usdt_payment_last_first(address, amount, out) ==
    LET response == _make_request(out)
        body == IF response.none \/ response.json.status # "1"
                THEN ErrorResult("Failed to fetch transactions")
                ELSE LET txs == response.json.result
                     IN  ScanEth([i \in 1..Len(txs) |-> txs[Len(txs) + 1 - i]],
                                 1, address, amount)
    IN  IF IsRaise(body) THEN ErrorResult(body.exc) ELSE body

verify_eth_usdt_payment(address, amount, out) ==
    LET response == _make_request(out)
        body == IF response.none \/ response.json.status # "1"
                THEN ErrorResult("Failed to fetch transactions")
                ELSE ScanEth(response.json.result, 1, address, amount)
    IN  IF IsRaise(body) THEN ErrorResult(body.exc) ELSE body

\* POST /wallet/gettransactionbyid: {} unless the answer has status 200
_get_tron_transaction_info(info) ==
    IF info \in {"block", "noblock"}
    THEN [empty |-> FALSE, confirmed |-> info = "block"]
    ELSE [empty |-> TRUE]

RECURSIVE ScanTron(_, _, _, _)
ScanTron(transactions, i, address, amount) ==
    IF i > Len(transactions) THEN NotVerified
    ELSE LET tx == transactions[i]
             received_amount == Scale(tx.value, TRON_USDT_DECIMALS)
             tx_info == _get_tron_transaction_info(tx.info)
             confirmed == IF tx_info.empty THEN FALSE ELSE tx_info.confirmed
         IN  IF tx.to = address
             THEN IF Ge(received_amount, amount) /\ confirmed
                  THEN Verified(tx.transaction_id, received_amount, 1)
                  ELSE ScanTron(transactions, i + 1, address, amount)
             ELSE ScanTron(transactions, i + 1, address, amount)

verify_tron_usdt_payment(address, amount, out) ==
    LET response == _make_request(out)
    IN  IF response.none \/ ~response.json.success
        THEN ErrorResult("Failed to fetch transactions")
        ELSE ScanTron(response.json.data, 1, address, amount)

RECURSIVE ScanBsc(_, _, _, _)
ScanBsc(transactions, i, address, amount) ==
    IF i > Len(transactions) THEN NotVerified
    ELSE LET tx == transactions[i]
             received_amount == Scale(tx.value, BSC_USDT_DECIMALS)
         IN  IF tx.to = NULL THEN Raise("AttributeError")
             ELSE IF /\ Lower(tx.to) = Lower(address)
                     /\ Ge(received_amount, amount) /\ tx.confirmations >= 1
             THEN Verified(tx.hash, received_amount, tx.confirmations)
             ELSE ScanBsc(transactions, i + 1, address, amount)

verify_bsc_usdt_payment(address, amount, out) ==
    LET response == _make_request(out)
        body == IF response.none \/ response.json.status # "1"
                THEN ErrorResult("Failed to fetch transactions")
                ELSE ScanBsc(response.json.result, 1, address, amount)
    IN  IF IsRaise(body) THEN ErrorResult(body.exc) ELSE body

\* the network whose API verify_payment queries, "none" for an unsupported currency
Endpoint(currency, network) ==
    IF Upper(currency) = "BTC" THEN "btc"
    ELSE IF Upper(currency) = "USDT"
    THEN IF network = "TRC20" THEN "tron"
         ELSE IF network = "ERC20" THEN "eth"
         ELSE IF network = "BEP20" THEN "bsc"
         ELSE "tron"
    ELSE "none"

verify_payment(currency, address, amount, network, out) ==
    LET net == Endpoint(currency, network)
    IN  IF net = "btc" THEN verify_btc_payment(address, amount, out)
        ELSE IF net = "tron" THEN verify_tron_usdt_payment(address, amount, out)
        ELSE IF net = "eth" THEN verify_eth_usdt_payment(address, amount, out)
        ELSE IF net = "bsc" THEN verify_bsc_usdt_payment(address, amount, out)
        ELSE ErrorResult("Unsupported currency")

\* ---- what the block explorers may answer ----

SeqsUpTo(S, n) == UNION {[1..k -> S] : k \in 0..n}

\* give the i-th transfer of an answer the id i
Numbered(txs, field) == [i \in DOMAIN txs |-> txs[i] @@ (field :> ToString(i))]

BtcOutputs == {[scriptpubkey_address |-> a, value |-> v] :
                  a \in {"addrA", "addrB"},
                  v \in {Dec(5, 5), Dec(1, 6), Dec(50, 8)}}
BtcTxs == {[vout |-> vout, status |-> [confirmed |-> c]] :
              vout \in {<<o>> : o \in BtcOutputs}
                         \cup {<<o1, o2>> : o1 \in BtcOutputs,
                                  o2 \in {o \in BtcOutputs :
                                             o.scriptpubkey_address = "addrA"}},
              c \in BOOLEAN}
\* BlockchainService.usdt_contracts: sent as a parameter of the request only
usdt_contracts ==
    [eth |-> "0xdAC17F958D2ee523a2206206994597C13D831ec7",
     tron |-> "TR7NHqjeKQxGTCi8q8ZY4pL8otSzgjLj6t",
     bsc |-> "0x55d398326f99059fF775485246999027B3197955"]
OTHER_TOKEN == "contract_of_another_token"

\* token transfer records name the contract they belong to (contractAddress of
\* a tokentx record, token_info.address of a trc20 record); beside the USDT
\* records, one confirmed full-amount transfer of another token to the address
TokenTxs(net, values, full) ==
    {[to |-> t, value |-> v, confirmations |-> c, contractAddress |-> usdt_contracts[net]] :
        t \in {"addrA", "ADDRA", "addrB", NULL}, v \in values, c \in {0, 1}}
    \cup {[to |-> "addrA", value |-> full, confirmations |-> 1,
           contractAddress |-> OTHER_TOKEN]}
TronTxs ==
    {[to |-> t, value |-> v, info |-> i, token_info |-> [address |-> usdt_contracts.tron]] :
        t \in {"addrA", "ADDRA", "addrB"},
        v \in {Dec(5, 3), Dec(1, 4), Dec(50, 6)},
        i \in {"block", "noblock", "http_error", "exception"}}
    \cup {[to |-> "addrA", value |-> Dec(50, 6), info |-> "block",
           token_info |-> [address |-> OTHER_TOKEN]]}

Answers(net) ==
    IF net = "none" THEN NotCalled
    ELSE HttpFailures \cup
         IF net = "btc"
         THEN {Ok(Numbered(txs, "txid")) : txs \in SeqsUpTo(BtcTxs, MaxTxs)}
         ELSE IF net = "eth"
         THEN {Ok([status |-> "0", result |-> <<>>])} \cup
              {Ok([status |-> "1", result |-> Numbered(txs, "hash")]) :
                  txs \in SeqsUpTo(TokenTxs("eth", {Dec(5, 3), Dec(1, 4), Below(50, 6),
                                                    Dec(50, 6)}, Dec(50, 6)), MaxTxs)}
         ELSE IF net = "bsc"
         THEN {Ok([status |-> "0", result |-> <<>>])} \cup
              {Ok([status |-> "1", result |-> Numbered(txs, "hash")]) :
                  txs \in SeqsUpTo(TokenTxs("bsc", {Dec(5, 15), Dec(1, 16), Below(50, 18),
                                                    Dec(50, 18)}, Dec(50, 18)), MaxTxs)}
         ELSE {Ok([success |-> FALSE, data |-> <<>>])} \cup
              {Ok([success |-> TRUE, data |-> Numbered(txs, "transaction_id")]) :
                  txs \in SeqsUpTo(TronTxs, MaxTxs)}

VerifyArgs ==
    {<<"btc", NULL>>, <<"USDT", "TRC20">>, <<"USDT", "ERC20">>, <<"USDT", "BEP20">>,
     <<"USDT", NULL>>, <<"USDT_TRC20", NULL>>, <<"USDT_ERC20", NULL>>,
     <<"USDT_BEP20", NULL>>}
MinAmounts == {Dec(1, -2), Dec(50, 0)}

\* one verification: the arguments and the explorer's answer are drawn first
InitChain ==
    /\ InitRoutes
    /\ svc = [nowpayments_api_key |-> FALSE, btcpay_api_key |-> FALSE,
              btcpay_url |-> FALSE]
    /\ issued = <<>>
    /\ last = NoCall
    /\ mcall = NoCall
    /\ \E args \in VerifyArgs, address \in {"addrA", "ADDRA"}, amount \in MinAmounts :
          \E out \in Answers(Endpoint(args[1], args[2])) :
             vcall = [op |-> "call", currency |-> args[1], network |-> args[2],
                      address |-> address, amount |-> amount,
                      net |-> Endpoint(args[1], args[2]), out |-> out]

VerifyPayment ==
    /\ vcall.op = "call"
    /\ vcall' = [vcall EXCEPT !.op = "done"] @@
                [ret |-> verify_payment(vcall.currency, vcall.address, vcall.amount,
                                        vcall.network, vcall.out)]
    /\ UNCHANGED <<routeVars, serviceVars, mcall>>

NextChain == VerifyPayment

SpecChain == InitChain /\ [][NextChain]_vars

----------------------------------------------------------------------------
(* the Payment model on its own: one method called on one Payment object,   *)
(* beside the routes that call the same methods on the rows of the table    *)

StatusArgs == valid_statuses \cup {"expired", "confirmed", "PENDING", ""}
TxArgs == {NULL, "", "tx2"}                \* None, the empty string, an id
ReasonArgs == {NULL, "", "timeout"}

PaymentObjects ==
    {[Payment("manual", am, "BTC", tx) EXCEPT !.status = st] :
        am \in {50, 75}, tx \in {NULL, "tx1"}, st \in valid_statuses}

MethodCalls ==
    {[method |-> "update_status", status |-> st, arg |-> tx] :
        st \in StatusArgs, tx \in TxArgs}
    \cup {[method |-> "mark_completed", status |-> NULL, arg |-> tx] : tx \in TxArgs}
    \cup {[method |-> m, status |-> NULL, arg |-> r] :
             m \in {"mark_failed", "cancel"}, r \in ReasonArgs}

InitPayment ==
    /\ InitRoutes
    /\ svc = [nowpayments_api_key |-> FALSE, btcpay_api_key |-> FALSE,
              btcpay_url |-> FALSE]
    /\ issued = <<>>
    /\ last = NoCall
    /\ vcall = NoCall
    /\ \/ mcall = NoCall
       \/ \E c \in MethodCalls, p \in PaymentObjects :
             mcall = [op |-> "call", method |-> c.method, status |-> c.status,
                      arg |-> c.arg, obj |-> p]

\* the call runs: the object after it and the value returned
CallMethod ==
    /\ mcall.op = "call"
    /\ LET p == mcall.obj
           out == CASE mcall.method = "update_status" ->
                          update_status(p, mcall.status, mcall.arg)
                    [] mcall.method = "mark_completed" -> mark_completed(p, mcall.arg)
                    [] mcall.method = "mark_failed" -> mark_failed(p, mcall.arg)
                    [] mcall.method = "cancel" -> cancel(p, mcall.arg)
       IN  mcall' = [mcall EXCEPT !.op = "done"] @@ [rec |-> out.rec, ret |-> out.ret]
    /\ UNCHANGED <<routeVars, serviceVars, vcall>>

NextPayment ==
    \/ CallMethod
    \/ mcall.op = "none" /\ Next

SpecPayment == InitPayment /\ [][NextPayment]_vars

----------------------------------------------------------------------------
(* Claims about the payment routes *)

\* the step commits a request of the given route for payment pid
Committed(action, pid) ==
    /\ Len(audit') = Len(audit) + 1
    /\ audit'[Len(audit')].action = action
    /\ audit'[Len(audit')].record_id = pid

\* C1 (as claimed): once a payment's status is terminal (completed, failed,
\* expired, cancelled) no later operation makes it non-terminal.
C1_TerminalNeverLeft ==
    [][\A pid \in created :
          db[pid].status \in Terminal => db'[pid].status \in Terminal]_vars

\* C2 (as claimed): in every reachable state a payment whose status is completed
\* or confirmed has a non-null transaction_id.
C2_CompletedHasTransactionId ==
    \A pid \in created :
        db[pid].status \in {"completed", "confirmed"} => db[pid].transaction_id # NULL

C5_OneTransitionRecorded ==
    \A i, j \in DOMAIN audit :
        ( /\ i < j
          /\ audit[i].action = "SYNC_PAYMENT" /\ audit[j].action = "SYNC_PAYMENT"
          /\ audit[i].record_id = audit[j].record_id
          /\ audit[i].old_status = audit[j].old_status
          /\ audit[i].new_status = audit[j].new_status
          /\ audit[i].old_status # audit[i].new_status )
        => \E k \in DOMAIN audit :
              /\ i < k /\ k < j
              /\ audit[k].record_id = audit[i].record_id
              /\ audit[k].old_status # audit[k].new_status
              /\ audit[k].new_status = audit[i].old_status

\* C6 (as claimed): a sync that follows a committed sync of the same payment, with
\* nothing changed in between (neither the provider's side nor the row it loaded),
\* leaves status and transaction_id as they were and records no transition.
C6_SecondSyncChangesNothing ==
    [][\A pid \in created :
          ( /\ settled[pid]
            /\ Committed("SYNC_PAYMENT", pid)
            /\ \E w \in Reqs : /\ req[w].op = "sync" /\ req[w].pid = pid
                               /\ req'[w].op = "idle"
                               /\ req[w].snap = db[pid] )
          => /\ db'[pid].status = db[pid].status
             /\ db'[pid].transaction_id = db[pid].transaction_id
             /\ audit'[Len(audit')].old_status = audit'[Len(audit')].new_status]_vars

\* C18 (as claimed): a force-confirm applied to a payment whose status is terminal
\* (completed, failed, expired, cancelled) is rejected and leaves the record as
\* it was. (The request saw the row as it is: no other commit came in between.)
C18_ForceConfirmOnlyNonTerminal ==
    [][\A w \in Reqs :
          ( /\ req[w].op = "force" /\ req'[w].op = "idle"
            /\ req[w].snap = db[req[w].pid]
            /\ db[req[w].pid].status \in Terminal )
          => (resp' # 200 /\ db' = db /\ audit' = audit)]_vars

\* C19 (as claimed): every committed status change of a payment comes with exactly
\* one audit entry, written in the same commit, that names the actor, the action,
\* the record id, the old status and the new status; a rolled-back request commits
\* neither a change nor an entry.
C19_StatusChangeAudited ==
    [][/\ \A pid \in created :
             db'[pid].status # db[pid].status
             => /\ Len(audit') = Len(audit) + 1
                /\ LET entry == audit'[Len(audit')]
                   IN  /\ entry.record_id = pid
                       /\ entry.user_id \in Admins
                       /\ entry.action \in {"SYNC_PAYMENT", "CANCEL_PAYMENT",
                                            "FORCE_CONFIRM_PAYMENT"}
                       /\ entry.old_status = db[pid].status
                       /\ entry.new_status = db'[pid].status
       /\ resp' = 500 => (db' = db /\ audit' = audit)]_vars

\* C27 (as claimed): of a cancel and a force-confirm issued concurrently on one
\* pending payment at most one applies its transition: the audit log never
\* holds both a cancel from pending and a force-confirm from pending of one
\* payment, unless the payment was moved back to pending in between.
C27_CancelForceExclusive ==
    \A i, j \in DOMAIN audit :
        ( /\ i # j
          /\ audit[i].action = "CANCEL_PAYMENT" /\ audit[i].old_status = "pending"
          /\ audit[i].new_status = "cancelled"
          /\ audit[j].action = "FORCE_CONFIRM_PAYMENT" /\ audit[j].old_status = "pending"
          /\ audit[j].new_status = "completed"
          /\ audit[i].record_id = audit[j].record_id )
        => \E k \in DOMAIN audit :
              /\ (i < k /\ k < j) \/ (j < k /\ k < i)
              /\ audit[k].record_id = audit[i].record_id
              /\ audit[k].new_status = "pending"

\* C30 (as claimed): the cancel route changes a payment only when its status is
\* pending (the status becomes cancelled and the reason is stored); on a payment
\* in any other status it answers with an error, leaves status, transaction_id
\* and payment_data as they were and writes no audit entry.
C30_CancelOnlyPending ==
    [][\A w \in Reqs :
          (req[w].op = "cancel" /\ req'[w].op = "idle") =>
             LET pid == req[w].pid
             IN  IF db[pid].status = "pending"
                 THEN \/ resp' = 500 /\ db' = db /\ audit' = audit
                      \/ /\ resp' = 200
                         /\ db'[pid].status = "cancelled"
                         /\ db'[pid].payment_data.cancellation_reason \in Reasons
                 ELSE /\ resp' \in {400, 500}
                      /\ db'[pid].status = db[pid].status
                      /\ db'[pid].transaction_id = db[pid].transaction_id
                      /\ db'[pid].payment_data = db[pid].payment_data
                      /\ audit' = audit]_vars

----------------------------------------------------------------------------
(* Claims about PaymentService *)

BtcPayConfigured == svc.btcpay_api_key /\ svc.btcpay_url

C7_OneInvoicePerOrder ==
    \A i, j \in DOMAIN issued :
        issued[i].order_id = issued[j].order_id
            => issued[i].invoice_id = issued[j].invoice_id

\* C10: check_payment_status returns a value and never raises; when the provider's
\* call fails or times out the returned status is 'unknown' with an error text, and
\* the call changes neither the payments table nor the audit log.
C10_CheckStatusNeverRaises ==
    [][(last'.op = "check" /\ last' # last)
          => /\ ~IsRaise(last'.ret)
             /\ last'.out \in {"http_error", "timeout"}
                   => /\ last'.ret.status = "unknown"
                      /\ "error" \in DOMAIN last'.ret
             /\ UNCHANGED <<db, audit>>]_vars

\* C10 witness: a status check of a NowPayments invoice whose request timed out
\* came back with status unknown.
C10_Witness ==
    /\ last.op = "check"
    /\ last.target = "nowpayments" /\ last.out = "timeout"
    /\ ~IsRaise(last.ret)
    /\ last.ret.status = "unknown"

\* the native status a hosted provider's answer carries, if it carries one
HasNative(key) ==
    /\ last.op = "check" /\ last.answer.kind = "ok"
    /\ key \in DOMAIN last.answer.json

\* C11: for both hosted adapters a native status that is no key of the adapter's
\* lookup table is reported as 'unknown', never as any other status.
C11_UnmappedIsUnknown ==
    /\ ( /\ HasNative("payment_status") /\ last.target = "nowpayments"
         /\ last.answer.json.payment_status \notin DOMAIN nowpayments_status_map )
       => last.ret.status = "unknown"
    /\ ( /\ HasNative("status") /\ last.target = "btcpay"
         /\ last.answer.json.status \notin DOMAIN btcpay_status_map )
       => last.ret.status = "unknown"

\* C11 witness: BTCPay answered a status its table lacks and the check said unknown
C11_Witness ==
    /\ HasNative("status") /\ last.target = "btcpay"
    /\ last.answer.json.status = "Processing"
    /\ last.ret.status = "unknown"

CanonicalStatuses ==
    {"pending", "confirming", "confirmed", "completed", "failed", "expired",
     "cancelled", "partial"}

\* C12 (as claimed): every status check_payment_status returns is in the canonical
\* vocabulary or is 'unknown'.
C12_StatusInVocabulary ==
    last.op = "check" => last.ret.status \in CanonicalStatuses \cup {"unknown"}

\* C12 (amended): every status check_payment_status returns is in the canonical
\* vocabulary, or is 'unknown', or is 'refunded'; 'refunded' is returned only by the
\* NowPayments adapter for the native status 'refunded'.
C12_StatusInVocabularyOrRefunded ==
    last.op = "check"
    => /\ last.ret.status \in CanonicalStatuses \cup {"unknown", "refunded"}
       /\ last.ret.status = "refunded"
             => /\ last.target = "nowpayments"
                /\ HasNative("payment_status")
                /\ last.answer.json.payment_status = "refunded"

\* C12 witness: NowPayments answered 'refunded' and the check returned 'refunded'
C12_Witness ==
    /\ last.op = "check" /\ last.target = "nowpayments"
    /\ last.ret.status = "refunded"

\* C13: the NowPayments adapter maps waiting to pending, confirming to confirming,
\* confirmed and sending to confirmed, partially_paid to partial, finished to
\* completed, failed to failed, refunded to refunded, expired to expired.
C13_NowPaymentsMapping ==
    (HasNative("payment_status") /\ last.target = "nowpayments")
    => \A pair \in {<<"waiting", "pending">>, <<"confirming", "confirming">>,
                    <<"confirmed", "confirmed">>, <<"sending", "confirmed">>,
                    <<"partially_paid", "partial">>, <<"finished", "completed">>,
                    <<"failed", "failed">>, <<"refunded", "refunded">>,
                    <<"expired", "expired">>} :
          last.answer.json.payment_status = pair[1] => last.ret.status = pair[2]

\* C13 witness: NowPayments answered 'sending' and the check returned 'confirmed'
C13_Witness ==
    /\ HasNative("payment_status") /\ last.target = "nowpayments"
    /\ last.answer.json.payment_status = "sending"
    /\ last.ret.status = "confirmed"

\* C14: the BTCPay adapter maps New to pending, Paid to confirming, Confirmed to
\* confirmed, Complete to completed, Expired to expired, Invalid to failed.
C14_BtcPayMapping ==
    (HasNative("status") /\ last.target = "btcpay")
    => \A pair \in {<<"New", "pending">>, <<"Paid", "confirming">>,
                    <<"Confirmed", "confirmed">>, <<"Complete", "completed">>,
                    <<"Expired", "expired">>, <<"Invalid", "failed">>} :
          last.answer.json.status = pair[1] => last.ret.status = pair[2]

\* C14 witness: BTCPay answered 'Paid' and the check returned 'confirming'
C14_Witness ==
    /\ HasNative("status") /\ last.target = "btcpay"
    /\ last.answer.json.status = "Paid"
    /\ last.ret.status = "confirming"

\* the issued invoices the last status check named, together with their provider
CheckedIssued ==
    {k \in DOMAIN issued :
        /\ last.op = "check"
        /\ issued[k].invoice_id = last.invoice_id
        /\ issued[k].provider = last.provider}

\* the provider in a created invoice is the adapter that issued it
ProviderIsIssuer ==
    last.op = "create"
    => /\ last.ret.provider = "nowpayments"
             => (last.tried = <<"nowpayments">> /\ last.np_out = "ok")
       /\ last.ret.provider = "btcpay"
             => (last.tried = <<"btcpay">> /\ last.btc_out = "ok")
       /\ last.ret.provider = "manual"
             => \/ last.tried = <<>>
                \/ last.tried = <<"nowpayments">> /\ last.np_out # "ok"
                \/ last.tried = <<"btcpay">>

C21_UnsupportedCurrencyFails ==
    ( /\ last.op = "create" /\ last.tried = <<>>
      /\ Upper(last.currency) \notin DOMAIN wallet_addresses )
    => IsRaise(last.ret)

\* C22: a manual invoice's address is the configured wallet of the currency the
\* invoice states: the requested currency when it has a wallet, else USDT_TRC20
\* with the default wallet; the address depends on the requested currency only;
\* status is pending and provider is manual; with no hosted adapter configured no
\* provider API is called.
C22_ManualInvoice ==
    (last.op = "create" /\ last.ret.provider = "manual")
    => /\ last.ret.currency \in DOMAIN wallet_addresses
       /\ last.ret.address = wallet_addresses[last.ret.currency]
       /\ last.ret.currency
             = IF Upper(last.currency) \in {"BTC", "USDT_TRC20", "USDT_ERC20"}
               THEN Upper(last.currency) ELSE "USDT_TRC20"
       /\ last.ret.status = "pending"
       /\ last.tried = <<>> => (last.np_out = "not_called" /\ last.btc_out = "not_called")
       /\ \A k \in DOMAIN issued :
             (issued[k].provider = "manual" /\ issued[k].currency = last.ret.currency)
             => issued[k].address = last.ret.address

\* C22 witness: a second manual invoice for a currency without a wallet came back
\* as USDT_TRC20 at the default wallet
C22_Witness ==
    /\ last.op = "create" /\ last.currency = "USDT_BEP20"
    /\ last.ret.provider = "manual" /\ last.ret.currency = "USDT_TRC20"
    /\ last.ret.address = wallet_addresses.USDT_TRC20
    /\ Len(issued) = 2 /\ issued[1].provider = "manual"

----------------------------------------------------------------------------
(* Claims about BlockchainService *)

\* the transfers of a fetched list: id, destination, raw value, and whether
\* the chain's confirmation predicate holds for it
Transfers(net, json) ==
    IF net = "btc"
    THEN {[id |-> json[i].txid, to |-> json[i].vout[j].scriptpubkey_address,
           value |-> json[i].vout[j].value, confirmed |-> json[i].status.confirmed] :
             <<i, j>> \in {ij \in (DOMAIN json) \X (1..2) : ij[2] <= Len(json[ij[1]].vout)}}
    ELSE IF net = "tron"
    THEN {[id |-> json.data[i].transaction_id, to |-> json.data[i].to,
           value |-> json.data[i].value, confirmed |-> json.data[i].info = "block"] :
             i \in DOMAIN json.data}
    ELSE {[id |-> json.result[i].hash, to |-> json.result[i].to,
           value |-> json.result[i].value,
           confirmed |-> json.result[i].confirmations >= 1] :
             i \in DOMAIN json.result}

Decimals(net) ==
    CASE net = "btc" -> BTC_DECIMALS [] net = "eth" -> ETH_USDT_DECIMALS
      [] net = "tron" -> TRON_USDT_DECIMALS [] net = "bsc" -> BSC_USDT_DECIMALS

\* the destination is the queried address (hex addresses compare without case)
IsDestination(net, to, address) ==
    /\ to # NULL
    /\ IF net \in {"eth", "bsc"} THEN Lower(to) = Lower(address) ELSE to = address

TronLookupFailed ==
    /\ vcall.net = "tron" /\ vcall.out.kind = "ok" /\ vcall.out.json.success
    /\ \E i \in DOMAIN vcall.out.json.data :
          /\ vcall.out.json.data[i].to = vcall.address
          /\ vcall.out.json.data[i].info \in {"http_error", "exception"}
          /\ Ge(Scale(vcall.out.json.data[i].value, TRON_USDT_DECIMALS), vcall.amount)
          /\ vcall.ret.verified =>
                \A j \in 1..(i - 1) : ToString(j) # vcall.ret.transaction_id

\* C9: when a blockchain API call fails (non-200 answer, exception or
\* timeout) the verifier returns verified=false with an error field, and it
\* never raises.
C9_ApiFailureGivesError ==
    vcall.op = "done" =>
        /\ ~IsRaise(vcall.ret)
        /\ (vcall.out \in HttpFailures \/ TronLookupFailed) =>
              (~vcall.ret.verified /\ "error" \in DOMAIN vcall.ret)

\* the explorer answered the fetch successfully: HTTP 200 and, where the body
\* carries one, its own success flag
ApiSuccess ==
    /\ vcall.net # "none" /\ vcall.out.kind = "ok"
    /\ vcall.net \in {"eth", "bsc"} => vcall.out.json.status = "1"
    /\ vcall.net = "tron" => vcall.out.json.success

\* the fetched transfer meets the three conditions of its verifier
Qualifies(t) ==
    /\ IsDestination(vcall.net, t.to, vcall.address)
    /\ Ge(Scale(t.value, Decimals(vcall.net)), vcall.amount)
    /\ t.confirmed

\* C24 (as claimed): when the explorer answers successfully and its list holds
\* no qualifying transfer (the empty list included), the verifier answers
\* verified=false with a reason field and no error field.
C24_NotFoundIsNotAnError ==
    ( /\ vcall.op = "done" /\ ApiSuccess
      /\ \A t \in Transfers(vcall.net, vcall.out.json) :
            /\ t.to # NULL
            /\ ~Qualifies(t)
      /\ ~TronLookupFailed )
    => /\ ~vcall.ret.verified
       /\ "reason" \in DOMAIN vcall.ret
       /\ "error" \notin DOMAIN vcall.ret

\* the fetched list in the order the explorer gave it, and the transfers each of
\* its transactions carries (the outputs of a BTC transaction, in vout order)
FetchedList ==
    CASE vcall.net = "btc" -> vcall.out.json
      [] vcall.net = "tron" -> vcall.out.json.data
      [] OTHER -> vcall.out.json.result

TxId(i) ==
    CASE vcall.net = "btc" -> FetchedList[i].txid
      [] vcall.net = "tron" -> FetchedList[i].transaction_id
      [] OTHER -> FetchedList[i].hash

Outputs(i) ==
    LET tx == FetchedList[i]
    IN  CASE vcall.net = "btc" ->
                [j \in DOMAIN tx.vout |->
                    [to |-> tx.vout[j].scriptpubkey_address, value |-> tx.vout[j].value,
                     confirmed |-> tx.status.confirmed]]
          [] vcall.net = "tron" ->
                <<[to |-> tx.to, value |-> tx.value, confirmed |-> tx.info = "block"]>>
          [] OTHER ->
                <<[to |-> tx.to, value |-> tx.value,
                   confirmed |-> tx.confirmations >= 1]>>

QualifyingAt(i) == {j \in DOMAIN Outputs(i) : Qualifies(Outputs(i)[j])}

Least(S) == CHOOSE n \in S : \A k \in S : n <= k

ContractOf(tx) ==
    IF vcall.net = "tron" THEN tx.token_info.address ELSE tx.contractAddress

\* C26 (as claimed): on the token verifiers a transfer record of a contract
\* other than the network's USDT contract never produces verified=true,
\* whatever records the answer holds.
C26_ForeignContractNeverVerifies ==
    (vcall.op = "done" /\ vcall.net \in {"eth", "tron", "bsc"} /\ vcall.ret.verified)
    => \A i \in DOMAIN FetchedList :
          TxId(i) = vcall.ret.transaction_id
          => ContractOf(FetchedList[i]) = usdt_contracts[vcall.net]

\* the verifier that matches each currency code of the platform
MatchingNetwork ==
    [BTC |-> "btc", USDT_TRC20 |-> "tron", USDT_ERC20 |-> "eth", USDT_BEP20 |-> "bsc"]

\* C28 (as claimed): verify_payment called with any of the currency codes BTC,
\* USDT_TRC20, USDT_ERC20, USDT_BEP20 dispatches to the verifier of the matching
\* network and never answers 'Unsupported currency'.
C28_EveryCurrencyDispatched ==
    (vcall.op = "done" /\ Upper(vcall.currency) \in DOMAIN MatchingNetwork)
    => /\ vcall.net = MatchingNetwork[Upper(vcall.currency)]
       /\ ~("error" \in DOMAIN vcall.ret /\ vcall.ret.error = "Unsupported currency")

----------------------------------------------------------------------------
(* Claims about manual invoices and the chain verifiers *)

\* the issued manual invoices the last status check was about
CheckedManual ==
    {k \in DOMAIN issued :
        /\ last.op = "check" /\ last.target = "manual"
        /\ issued[k].provider = "manual"
        /\ issued[k].invoice_id = last.invoice_id}

\* C15 (as claimed): for a manual invoice of 50 USDT on TRC20, once the explorer
\* lists a confirmed TRC20 transfer of 50 USDT to the assigned address, a status
\* check of the invoice returns completed with that transfer's transaction id.
C15_ManualTronCompletes ==
    \A k \in CheckedManual :
        ( /\ issued[k].currency = "USDT_TRC20" /\ issued[k].amount = Dec(50, 0)
          /\ verify_tron_usdt_payment(issued[k].address, issued[k].amount,
                                      last.chain.tron).verified )
        => /\ last.ret.status = "completed"
           /\ last.ret.transaction_id
                 = verify_tron_usdt_payment(issued[k].address, issued[k].amount,
                                            last.chain.tron).transaction_id

\* C16 (as claimed): for a manual invoice of 0.01 BTC, when the only transfer the
\* explorer lists at the address is 0.005 BTC, a status check of the invoice
\* reports partial (and so never completed).
C16_UnderpaidBtcIsPartial ==
    \A k \in CheckedManual :
        ( /\ issued[k].currency = "BTC" /\ issued[k].amount = Dec(1, -2)
          /\ Len(last.chain.btc.json) = 1
          /\ Len(last.chain.btc.json[1].vout) = 1
          /\ last.chain.btc.json[1].vout[1].scriptpubkey_address = issued[k].address
          /\ last.chain.btc.json[1].vout[1].value = Dec(5, 5) )
        => last.ret.status = "partial"

\* the network's exponent as the claim gives it
ClaimedExponent(net) ==
    CASE net = "btc" -> 8 [] net = "eth" -> 6 [] net = "tron" -> 6 [] net = "bsc" -> 18

\* C17 (as claimed): each verifier scales by its network's exponent (BTC 8, ERC20
\* 6, TRC20 6, BEP20 18): on a fetched list whose transfers all name a
\* destination, the verifier answers verified exactly when the list holds a
\* confirmed transfer to the address whose raw value v is >= m * 10^e.
C17_ScalingExact ==
    ( /\ vcall.op = "done" /\ vcall.net # "none" /\ vcall.out.kind = "ok"
      /\ \A t \in Transfers(vcall.net, vcall.out.json) : t.to # NULL )
    => ( vcall.ret.verified
         <=> \E t \in Transfers(vcall.net, vcall.out.json) :
                /\ IsDestination(vcall.net, t.to, vcall.address)
                /\ t.confirmed
                /\ Ge(t.value, [vcall.amount EXCEPT
                                   !.e = @ + ClaimedExponent(vcall.net)]) )

----------------------------------------------------------------------------
(* Claims about the Payment model and the routes that call it *)

\* C23: the amount of a payment is fixed at creation: no method of the model
\* (update_status, mark_completed, mark_failed, cancel) and no commit of the
\* sync, cancel and force-confirm routes changes it.
C23_AmountImmutable ==
    [][ /\ \A pid \in created : db'[pid].amount = db[pid].amount
        /\ mcall'.op = "done" => mcall'.rec.amount = mcall'.obj.amount ]_vars

\* C23 witness: a row that a sync and then a cancel were committed on still has
\* the amount it was created with
C23_Witness ==
    \E pid \in created :
       /\ db[pid].payment_data.sync_result = "success"
       /\ db[pid].status = "cancelled" /\ db[pid].updated_at = utcnow
       /\ db[pid].amount = 50

\* C29: update_status with a status outside pending, completed, failed,
\* cancelled returns False and leaves status, transaction_id and updated_at as
\* they were; with a status inside the set it returns True, sets the status, and
\* changes transaction_id only when a non-empty transaction id is passed.
C29_UpdateStatusContract ==
    (mcall.op = "done" /\ mcall.method = "update_status") =>
        LET p == mcall.obj
            q == mcall.rec
        IN  IF mcall.status \in {"pending", "completed", "failed", "cancelled"}
            THEN /\ mcall.ret = TRUE
                 /\ q.status = mcall.status
                 /\ q.transaction_id # p.transaction_id
                       => (mcall.arg \notin {NULL, ""} /\ q.transaction_id = mcall.arg)
                 /\ mcall.arg \notin {NULL, ""} => q.transaction_id = mcall.arg
            ELSE /\ mcall.ret = FALSE
                 /\ q.status = p.status
                 /\ q.transaction_id = p.transaction_id
                 /\ q.updated_at = p.updated_at

\* C29 witness: a rejected call with a status outside the set and a transaction
\* id, on a payment that holds another transaction id
C29_Witness ==
    /\ mcall.op = "done" /\ mcall.method = "update_status"
    /\ mcall.status = "expired" /\ mcall.arg = "tx2"
    /\ mcall.obj.transaction_id = "tx1" /\ mcall.obj.status = "pending"
    /\ mcall.ret = FALSE /\ mcall.rec = mcall.obj

====
